---- MODULE Spec2Model ----
(***************************************************************************)
(* Treatment Tracker API (backend/app.py): the validator, the three        *)
(* handlers over the treatments table, and two overlapping DELETE          *)
(* requests.  Strings are sequences of character codes, so that strip(),   *)
(* lower(), strptime() and SQLite's text comparison are computed.          *)
(***************************************************************************)
EXTENDS Integers, Sequences, FiniteSets, TLC

\* ------------------------------------------------------------------ bounds
\* Rows the table may ever receive (caps the AUTOINCREMENT counter).
MaxCreates == 2
\* Last instant of the clock; instant k is 2025-10-25T22:00Z plus k half hours.
MaxClock == 2
\* Connections that may be open at once (caps the count of leaked ones).
MaxOpen == 2

\* ----------------------------------------------------------------- strings
IsDigit(c) == c >= 48 /\ c <= 57

\* str.strip() whitespace: space, \t, \n, \v, \f, \r.
IsSpace(c) == c = 32 \/ (c >= 9 /\ c <= 13)

\* str.lower(), one character.
LowerChar(c) == IF c >= 65 /\ c <= 90 THEN c + 32 ELSE c

lower(s) == [i \in 1..Len(s) |-> LowerChar(s[i])]

\* str.strip(): drop the leading and the trailing whitespace.
strip(s) ==
    LET keep == {i \in 1..Len(s) : ~IsSpace(s[i])}
    IN  IF keep = {} THEN <<>>
        ELSE LET lo == CHOOSE i \in keep : \A j \in keep : i <= j
                 hi == CHOOSE i \in keep : \A j \in keep : i >= j
             IN  SubSeq(s, lo, hi)

\* Text comparison of SQLite's BINARY collation (memcmp, then length).
RECURSIVE TextLess(_, _)
TextLess(a, b) ==
    IF b = <<>> THEN FALSE
    ELSE IF a = <<>> THEN TRUE
    ELSE IF a[1] # b[1] THEN a[1] < b[1]
    ELSE TextLess(Tail(a), Tail(b))

\* -------------------------------------------------------- JSON values
\* A field of the request object: absent, null, a string, or a number.
Absent == [kind |-> "absent"]
Null == [kind |-> "null"]
Str(s) == [kind |-> "str", s |-> s]
Num(n) == [kind |-> "num", n |-> n]

\* Python truthiness of data.get(key).
Truthy(v) ==
    \/ v.kind = "str" /\ v.s # <<>>
    \/ v.kind = "num" /\ v.n # 0

\* ------------------------------------------------------------- validator
valid_types ==
    { <<112, 104, 121, 115, 105, 111, 116, 104, 101, 114, 97, 112, 121>>,  \* physiotherapy
      <<117, 108, 116, 114, 97, 115, 111, 117, 110, 100>>,                 \* ultrasound
      <<115, 116, 105, 109, 117, 108, 97, 116, 105, 111, 110>> }           \* stimulation

ErrName == "Patient name is required"
ErrType == "Valid treatment type is required (Physiotherapy, Ultrasound, or Stimulation)"
ErrDateRequired == "Treatment date is required"
ErrDateFormat == "Invalid date format. Use YYYY-MM-DD"

DigitVal(c) == c - 48

IsLeap(y) == (y % 4 = 0 /\ y % 100 # 0) \/ y % 400 = 0

DaysInMonth(y, m) ==
    IF m = 2 THEN (IF IsLeap(y) THEN 29 ELSE 28)
    ELSE IF m \in {4, 6, 9, 11} THEN 30 ELSE 31

\* strptime's %m: 1[0-2] | 0[1-9] | [1-9].
MonthTok(t) ==
    \/ Len(t) = 2 /\ t[1] = 49 /\ t[2] \in 48..50
    \/ Len(t) = 2 /\ t[1] = 48 /\ t[2] \in 49..57
    \/ Len(t) = 1 /\ t[1] \in 49..57

\* strptime's %d: 3[0-1] | [1-2]\d | 0[1-9] | [1-9] | " "[1-9].
DayTok(t) ==
    \/ Len(t) = 2 /\ t[1] = 51 /\ t[2] \in 48..49
    \/ Len(t) = 2 /\ t[1] \in 49..50 /\ IsDigit(t[2])
    \/ Len(t) = 2 /\ t[1] = 48 /\ t[2] \in 49..57
    \/ Len(t) = 1 /\ t[1] \in 49..57
    \/ Len(t) = 2 /\ t[1] = 32 /\ t[2] \in 49..57

TokVal(t) ==
    IF Len(t) = 1 THEN DigitVal(t[1])
    ELSE (IF t[1] = 32 THEN 0 ELSE 10 * DigitVal(t[1])) + DigitVal(t[2])

\* The ways the whole string splits as YYYY-<month>-<day>.
DateSplits(s) ==
    {lm \in {1, 2} :
        /\ Len(s) >= 7 + lm
        /\ Len(s) <= 8 + lm
        /\ \A i \in 1..4 : IsDigit(s[i])
        /\ s[5] = 45
        /\ MonthTok(SubSeq(s, 6, 5 + lm))
        /\ s[6 + lm] = 45
        /\ DayTok(SubSeq(s, 7 + lm, Len(s)))}

\* datetime.strptime(s, '%Y-%m-%d') of a str: the date, or ok = FALSE for ValueError.
strptime(s) ==
    IF DateSplits(s) = {} THEN [ok |-> FALSE]
    ELSE LET lm == CHOOSE l \in DateSplits(s) : TRUE
             y == 1000 * DigitVal(s[1]) + 100 * DigitVal(s[2])
                    + 10 * DigitVal(s[3]) + DigitVal(s[4])
             m == TokVal(SubSeq(s, 6, 5 + lm))
             d == TokVal(SubSeq(s, 7 + lm, Len(s)))
         IN  IF y >= 1 /\ d <= DaysInMonth(y, m)
             THEN [ok |-> TRUE, y |-> y, m |-> m, d |-> d]
             ELSE [ok |-> FALSE]

\* The patient-name rule; a truthy non-string has no strip() (AttributeError).
NameRaises(data) == Truthy(data.patient_name) /\ data.patient_name.kind # "str"
NameErrors(data) ==
    IF ~Truthy(data.patient_name) \/ strip(data.patient_name.s) = <<>>
    THEN <<ErrName>> ELSE <<>>

\* The treatment-type rule; a truthy non-string has no lower() (AttributeError).
TypeRaises(data) == Truthy(data.treatment_type) /\ data.treatment_type.kind # "str"
TypeErrors(data) ==
    IF ~Truthy(data.treatment_type) \/ lower(data.treatment_type.s) \notin valid_types
    THEN <<ErrType>> ELSE <<>>

\* The treatment-date rule; strptime of a non-string is a TypeError, not caught.
DateRaises(data) == Truthy(data.treatment_date) /\ data.treatment_date.kind # "str"
DateErrors(data) ==
    IF ~Truthy(data.treatment_date) THEN <<ErrDateRequired>>
    ELSE IF ~strptime(data.treatment_date.s).ok THEN <<ErrDateFormat>>
    ELSE <<>>

\* validate_treatment_data(data): the error list, or raised = TRUE when it throws.
validate_treatment_data(data) ==
    IF NameRaises(data) THEN [raised |-> TRUE, errors |-> <<>>]
    ELSE IF TypeRaises(data) THEN [raised |-> TRUE, errors |-> <<>>]
    ELSE IF DateRaises(data) THEN [raised |-> TRUE, errors |-> <<>>]
    ELSE [raised |-> FALSE,
          errors |-> NameErrors(data) \o TypeErrors(data) \o DateErrors(data)]

\* ------------------------------------------------------------ request body
\* request.get_json(): JSON null, or an object; extra = it has other keys.
NullBody ==
    [json |-> "null", patient_name |-> Absent, treatment_type |-> Absent,
     treatment_date |-> Absent, notes |-> Absent, extra |-> FALSE]

Object(n, t, d, o, x) ==
    [json |-> "object", patient_name |-> n, treatment_type |-> t,
     treatment_date |-> d, notes |-> o, extra |-> x]

\* Python truthiness of the parsed body: None and the empty dict are falsy.
BodyTruthy(data) ==
    /\ data.json = "object"
    /\ \/ data.extra
       \/ \E k \in {"patient_name", "treatment_type", "treatment_date", "notes"} :
              data[k].kind # "absent"

\* data.get('notes', '').strip(): the default only replaces an absent key.
NotesRaise(data) == data.notes.kind \in {"null", "num"}
NotesValue(data) ==
    IF data.notes.kind = "absent" THEN <<>> ELSE strip(data.notes.s)

\* ------------------------------------------------------------------- clock
Pad2(n) == <<48 + (n \div 10), 48 + (n % 10)>>

\* UTC offset of Asia/Jerusalem in hours: summer time ends 2025-10-25T23:00Z.
UtcOffset(k) == IF k < 2 THEN 3 ELSE 2

\* get_israel_time().isoformat() at instant k (local date 2025-10-26).
isoformat(k) ==
    LET local == 30 * k + 60 * UtcOffset(k) - 120
    IN  <<50, 48, 50, 53, 45, 49, 48, 45, 50, 54, 84>>          \* 2025-10-26T
        \o Pad2(local \div 60) \o <<58>> \o Pad2(local % 60)
        \o <<58, 48, 48, 43>> \o Pad2(UtcOffset(k)) \o <<58, 48, 48>>

\* ------------------------------------------------------------------- state
VARIABLES
    rows,      \* the treatments table: a set of records
    seq,       \* sqlite_sequence: the largest rowid ever assigned
    now,       \* the clock's instant
    open,      \* connections opened and not closed
    garbage,   \* those of them no handler refers to any more
    req,       \* the request the last step handled, if it handled one
    resp,      \* the response it was given
    issued,    \* history: ids returned by POST /treatments
    deleted,   \* history: ids for which DELETE answered 200
    thr,       \* the in-flight DELETE requests, one per worker thread
    vIn,       \* validator check: the payload
    vOut       \* validator check: the result

vars == <<rows, seq, now, open, garbage, req, resp, issued, deleted, thr, vIn, vOut>>

Threads == {1, 2}

Ids(t) == {r.id : r \in t}

MaxOf(S) == IF S = {} THEN 0 ELSE CHOOSE x \in S : \A y \in S : x >= y

\* ------------------------------------------------------------ SQL statements
\* INTEGER PRIMARY KEY without AUTOINCREMENT: one more than the largest rowid present.
RowidNoAutoincrement(t, s) == MaxOf(Ids(t)) + 1

\* INTEGER PRIMARY KEY AUTOINCREMENT: one more than the largest rowid ever used.
NextRowid(t, s) == MaxOf(Ids(t) \cup {s}) + 1

\* The row create_treatment inserts for a validated body at instant k.
NewRow(data, id, k) ==
    [id |-> id,
     patient_name |-> strip(data.patient_name.s),
     treatment_type |-> data.treatment_type.s,
     treatment_date |-> data.treatment_date.s,
     notes |-> NotesValue(data),
     created_at |-> isoformat(k)]

\* An upsert keyed on the patient instead of a plain INSERT.
InsertOrReplace(t, r) == {x \in t : x.patient_name # r.patient_name} \cup {r}

\* INSERT INTO treatments (...) VALUES (...)
InsertRow(t, r) == t \cup {r}

\* SELECT id FROM treatments WHERE id = ?
SelectById(t, id) == {r \in t : r.id = id}

\* DELETE FROM treatments with the WHERE clause lost.
DeleteAll(t, id) == {}

\* DELETE FROM treatments WHERE id = ?
DeleteWhere(t, id) == {r \in t : r.id # id}

\* ORDER BY treatment_date DESC, created_at DESC: a may come before b.
OrderedBefore(a, b) ==
    \/ TextLess(b.treatment_date, a.treatment_date)
    \/ a.treatment_date = b.treatment_date /\ ~TextLess(a.created_at, b.created_at)

\* The result sets the SELECT of get_treatments may return: every row once, in order.
SelectOrdered(t) ==
    {s \in [1..Cardinality(t) -> t] :
        /\ \A i, j \in 1..Cardinality(t) : i # j => s[i] # s[j]
        /\ \A i \in 1..Cardinality(t) - 1 : OrderedBefore(s[i], s[i + 1])}

\* ---------------------------------------------------------------- responses
NoRequest == [op |-> "none", body |-> NullBody, id |-> 0, fail |-> "none"]

Response(op, status, message, id, errors, list) ==
    [op |-> op, status |-> status, message |-> message, id |-> id,
     errors |-> errors, list |-> list]

NoResponse == Response("none", 0, "", 0, <<>>, <<>>)

\* The except clause of every handler: 500 'Server error: <detail>'.
ServerError(op) == Response(op, 500, "Server error", 0, <<>>, <<>>)

NotValidated == [called |-> FALSE, raised |-> FALSE, errors |-> <<>>]

Idle == [pc |-> "idle", id |-> 0, status |-> 0]

\* ------------------------------------------------------------------- inputs
NameAl == Str(<<32, 65, 108, 32>>)                                      \* " Al "
Physiotherapy ==
    Str(<<80, 104, 121, 115, 105, 111, 116, 104, 101, 114, 97, 112, 121>>)
Massage == Str(<<109, 97, 115, 115, 97, 103, 101>>)
Sep21 == Str(<<50, 48, 50, 53, 45, 57, 45, 50, 49>>)                    \* 2025-9-21
Oct01 == Str(<<50, 48, 50, 53, 45, 49, 48, 45, 48, 49>>)                \* 2025-10-01
Feb30 == Str(<<50, 48, 50, 53, 45, 48, 50, 45, 51, 48>>)                \* 2025-02-30
NotesOk == Str(<<32, 111, 107, 32>>)                                    \* " ok "

\* The bodies POST /treatments receives.
Bodies ==
    { NullBody,
      Object(Absent, Absent, Absent, Absent, FALSE),
      Object(Absent, Absent, Absent, Absent, TRUE),
      Object(Absent, Absent, Absent, NotesOk, FALSE),
      Object(NameAl, Physiotherapy, Sep21, Absent, FALSE),
      Object(NameAl, Physiotherapy, Oct01, NotesOk, FALSE),
      Object(NameAl, Physiotherapy, Oct01, Null, FALSE),
      Object(Absent, Physiotherapy, Sep21, Absent, FALSE),
      Object(NameAl, Absent, Sep21, NotesOk, FALSE),
      Object(NameAl, Physiotherapy, Absent, Absent, FALSE),
      Object(Num(5), Absent, Sep21, Absent, FALSE),
      Object(NameAl, Massage, Feb30, Absent, FALSE) }

\* What may go wrong in the persistence layer during one request.
CreateFailures == {"none", "connect", "insert"}
ListFailures == {"none", "connect", "select"}
DeleteFailures == {"none", "connect", "select", "delete"}

\* The ids DELETE /treatments/<id> is called with: every assigned one and one never assigned.
DeleteIds == 1..(MaxCreates + 1)

\* -------------------------------------------------------------------- Init
Init ==
    /\ rows = {}
    /\ seq = 0
    /\ now = 0
    /\ open = 0
    /\ garbage = 0
    /\ req = NoRequest
    /\ resp = NoResponse
    /\ issued = {}
    /\ deleted = {}
    /\ thr = [t \in Threads |-> Idle]
    /\ vIn = NullBody
    /\ vOut = NotValidated

\* ----------------------------------------------------------------- actions
\* Time passes between requests.
Tick ==
    /\ now < MaxClock
    /\ now' = now + 1
    /\ req' = NoRequest
    /\ resp' = NoResponse
    /\ UNCHANGED <<rows, seq, open, garbage, issued, deleted, thr, vIn, vOut>>

\* A connection no handler closed is closed when the interpreter collects it.
collect ==
    /\ garbage > 0
    /\ garbage' = garbage - 1
    /\ open' = open - 1
    /\ req' = NoRequest
    /\ resp' = NoResponse
    /\ UNCHANGED <<rows, seq, now, issued, deleted, thr, vIn, vOut>>

\* A handler returns through its except clause without conn.close(): the
\* connection is collected as the frame is dropped (kept = 0) or stays open (kept = 1).
Abandon(kept) ==
    /\ open' = open + kept
    /\ garbage' = garbage + kept

\* POST /treatments, the whole handler.
create_treatment(data, fail) ==
    LET v == validate_treatment_data(data)
        id == NextRowid(rows, seq)
    IN  /\ req' = [op |-> "create", body |-> data, id |-> 0, fail |-> fail]
        /\ UNCHANGED <<now, deleted, thr, vIn, vOut>>
        /\ IF ~BodyTruthy(data)
           THEN /\ fail = "none"
                /\ resp' = Response("create", 400, "No data provided", 0, <<>>, <<>>)
                /\ UNCHANGED <<rows, seq, open, garbage, issued>>
           ELSE IF v.raised
           THEN /\ fail = "none"
                /\ resp' = ServerError("create")
                /\ UNCHANGED <<rows, seq, open, garbage, issued>>
           ELSE IF v.errors # <<>>
           THEN /\ fail = "none"
                /\ resp' = Response("create", 400, "", 0, v.errors, <<>>)
                /\ UNCHANGED <<rows, seq, open, garbage, issued>>
           ELSE IF fail = "connect"
           THEN /\ resp' = ServerError("create")
                /\ UNCHANGED <<rows, seq, open, garbage, issued>>
           ELSE /\ open < MaxOpen
                /\ IF NotesRaise(data) \/ fail = "insert"
                   THEN /\ NotesRaise(data) => fail = "none"
                        /\ resp' = ServerError("create")
                        /\ \E kept \in {0, 1} : Abandon(kept)
                        /\ UNCHANGED <<rows, seq, issued>>
                   ELSE /\ seq < MaxCreates
                        /\ rows' = InsertRow(rows, NewRow(data, id, now))
                        /\ seq' = id
                        /\ issued' = issued \cup {id}
                        /\ resp' = Response("create", 201,
                                            "Treatment created successfully", id, <<>>, <<>>)
                        /\ UNCHANGED <<open, garbage>>

\* GET /treatments, the whole handler.
get_treatments(fail) ==
    /\ req' = [op |-> "list", body |-> NullBody, id |-> 0, fail |-> fail]
    /\ UNCHANGED <<rows, seq, now, issued, deleted, thr, vIn, vOut>>
    /\ IF fail = "connect"
       THEN resp' = ServerError("list") /\ UNCHANGED <<open, garbage>>
       ELSE /\ open < MaxOpen
            /\ IF fail = "select"
               THEN resp' = ServerError("list") /\ \E kept \in {0, 1} : Abandon(kept)
               ELSE /\ \E s \in SelectOrdered(rows) :
                         resp' = Response("list", 200, "", 0, <<>>, s)
                    /\ UNCHANGED <<open, garbage>>

\* DELETE /treatments/<id>, the whole handler.
delete_treatment(id, fail) ==
    /\ req' = [op |-> "delete", body |-> NullBody, id |-> id, fail |-> fail]
    /\ UNCHANGED <<seq, now, issued, thr, vIn, vOut>>
    /\ IF fail = "connect"
       THEN resp' = ServerError("delete") /\ UNCHANGED <<rows, open, garbage, deleted>>
       ELSE /\ open < MaxOpen
            /\ IF fail = "select"
               THEN /\ resp' = ServerError("delete")
                    /\ \E kept \in {0, 1} : Abandon(kept)
                    /\ UNCHANGED <<rows, deleted>>
               ELSE IF SelectById(rows, id) = {}
               THEN /\ fail = "none"
                    /\ resp' = Response("delete", 404, "Treatment not found", 0, <<>>, <<>>)
                    /\ UNCHANGED <<rows, open, garbage, deleted>>
               ELSE IF fail = "delete"
               THEN /\ resp' = ServerError("delete")
                    /\ \E kept \in {0, 1} : Abandon(kept)
                    /\ UNCHANGED <<rows, deleted>>
               ELSE /\ rows' = DeleteWhere(rows, id)
                    /\ deleted' = deleted \cup {id}
                    /\ resp' = Response("delete", 200, "Treatment deleted successfully",
                                        0, <<>>, <<>>)
                    /\ UNCHANGED <<open, garbage>>

Next ==
    \/ Tick
    \/ collect
    \/ \E data \in Bodies, fail \in CreateFailures : create_treatment(data, fail)
    \/ \E fail \in ListFailures : get_treatments(fail)
    \/ \E id \in DeleteIds, fail \in DeleteFailures : delete_treatment(id, fail)

Spec == Init /\ [][Next]_vars

\* ------------------------------------------------- two overlapping DELETEs
\* The bodies POST /treatments receives while DELETE requests overlap.
ConcBodies ==
    { Object(NameAl, Physiotherapy, Sep21, Absent, FALSE),
      Object(NameAl, Physiotherapy, Oct01, NotesOk, FALSE) }

\* delete_treatment on thread t up to its existence check (connect, SELECT, fetchone).
delete_select(t, id, fail) ==
    /\ thr[t].pc \in {"idle", "done"}
    /\ open < MaxOpen
    /\ req' = NoRequest
    /\ resp' = NoResponse
    /\ UNCHANGED <<rows, seq, now, issued, deleted, vIn, vOut>>
    /\ IF fail = "select"
       THEN /\ thr' = [thr EXCEPT ![t] = [pc |-> "done", id |-> id, status |-> 500]]
            /\ \E kept \in {0, 1} : Abandon(kept)
       ELSE IF SelectById(rows, id) = {}
       THEN /\ thr' = [thr EXCEPT ![t] = [pc |-> "done", id |-> id, status |-> 404]]
            /\ UNCHANGED <<open, garbage>>
       ELSE /\ thr' = [thr EXCEPT ![t] = [pc |-> "found", id |-> id, status |-> 0]]
            /\ open' = open + 1
            /\ UNCHANGED garbage

\* delete_treatment on thread t from its DELETE statement on (DELETE, commit, close).
delete_execute(t, fail) ==
    /\ thr[t].pc = "found"
    /\ req' = NoRequest
    /\ resp' = NoResponse
    /\ UNCHANGED <<seq, now, issued, vIn, vOut>>
    /\ IF fail = "delete"
       THEN /\ thr' = [thr EXCEPT ![t] = [pc |-> "done", id |-> thr[t].id, status |-> 500]]
            /\ \E kept \in {0, 1} : open' = open - 1 + kept /\ garbage' = garbage + kept
            /\ UNCHANGED <<rows, deleted>>
       ELSE /\ rows' = DeleteWhere(rows, thr[t].id)
            /\ deleted' = deleted \cup {thr[t].id}
            /\ open' = open - 1
            /\ UNCHANGED garbage
            /\ thr' = [thr EXCEPT ![t] = [pc |-> "done", id |-> thr[t].id, status |-> 200]]

NextConc ==
    \/ collect
    \/ \E data \in ConcBodies : create_treatment(data, "none")
    \/ \E t \in Threads, id \in DeleteIds, fail \in {"none", "select"} :
           delete_select(t, id, fail)
    \/ \E t \in Threads, fail \in {"none", "delete"} : delete_execute(t, fail)

SpecConc == Init /\ [][NextConc]_vars

\* ------------------------------------------------------ the validator alone
ValNames ==
    {Absent, Null, Str(<<>>), Str(<<32, 32>>), NameAl, Num(0), Num(5)}
ValTypes ==
    {Absent, Str(<<>>), Physiotherapy, Massage, Num(5),
     Str(<<85, 76, 84, 82, 65, 83, 79, 85, 78, 68>>),                    \* ULTRASOUND
     Str(<<115, 116, 105, 109, 117, 108, 97, 116, 105, 111, 110>>)}      \* stimulation
ValDates ==
    {Absent, Null, Str(<<>>), Num(5), Sep21, Oct01, Feb30,
     Str(<<50, 48, 50, 53, 45, 48, 57, 45, 50, 49>>),                    \* 2025-09-21
     Str(<<50, 48, 50, 53, 45, 49, 48, 45, 32, 53>>),                    \* 2025-10- 5
     Str(<<50, 48, 50, 52, 45, 48, 50, 45, 50, 57>>),                    \* 2024-02-29
     Str(<<50, 48, 50, 53, 45, 49, 51, 45, 48, 49>>),                    \* 2025-13-01
     Str(<<48, 48, 48, 48, 45, 48, 49, 45, 48, 49>>),                    \* 0000-01-01
     Str(<<50, 48, 50, 53, 45, 48, 57, 45, 50, 49, 49>>),                \* 2025-09-211
     Str(<<105, 110, 118, 97, 108, 105, 100, 45, 100, 97, 116, 101>>)}   \* invalid-date

\* The payloads the validator is applied to.
ValBodies == {Object(n, t, d, Absent, FALSE) : n \in ValNames, t \in ValTypes, d \in ValDates}

\* A payload arrives.
Submit(data) ==
    /\ vIn' = data
    /\ vOut' = NotValidated
    /\ UNCHANGED <<rows, seq, now, open, garbage, req, resp, issued, deleted, thr>>

\* validate_treatment_data is applied to it.
Validate ==
    /\ ~vOut.called
    /\ vIn.json = "object"
    /\ vOut' = [called |-> TRUE,
                raised |-> validate_treatment_data(vIn).raised,
                errors |-> validate_treatment_data(vIn).errors]
    /\ UNCHANGED <<rows, seq, now, open, garbage, req, resp, issued, deleted, thr, vIn>>

NextVal ==
    \/ \E data \in ValBodies : Submit(data)
    \/ Validate

SpecVal == Init /\ [][NextVal]_vars

\* ================================================================== claims
\* A step that handled a request of kind op.
Handled(op) == req'.op = op

FieldNames == {"patient_name", "treatment_type", "treatment_date"}

RequiredMessage(k) ==
    IF k = "patient_name" THEN ErrName
    ELSE IF k = "treatment_type" THEN ErrType ELSE ErrDateRequired

Contains(list, x) == \E i \in 1..Len(list) : list[i] = x

\* The 400 response that carries a validation error list.
IsValidationFailure(r) == r.status = 400 /\ r.errors # <<>>

\* C1: every JSON object body of POST /treatments in which patient_name,
\* treatment_type or treatment_date is missing (the body with none of the fields
\* included) is answered by a validation failure whose non-empty error list holds
\* the message of each missing field, and the stored records are unchanged.
C1_MissingFieldRejected ==
    [][ (Handled("create") /\ req'.body.json = "object"
            /\ \E k \in FieldNames : req'.body[k].kind = "absent")
        => /\ IsValidationFailure(resp')
           /\ \A k \in FieldNames :
                  req'.body[k].kind = "absent" => Contains(resp'.errors, RequiredMessage(k))
           /\ rows' = rows ]_vars

\* C2: DELETE of an id that was never created or is already deleted answers
\* NotFound and leaves the table unchanged; DELETE of a present id removes exactly
\* that record, after which no list shows it and no id answered as deleted is in
\* the table (so a second DELETE of it answers NotFound).  A request in which the
\* persistence layer fails is answered 500 and is not covered.
C2_DeleteRemovesExactlyThatRecord ==
    [][ /\ (Handled("delete") /\ req'.fail = "none" /\ req'.id \notin Ids(rows))
            => (resp'.status = 404 /\ rows' = rows /\ deleted' = deleted)
        /\ (Handled("delete") /\ req'.fail = "none" /\ req'.id \in Ids(rows))
            => /\ resp'.status = 200
               /\ rows' = {r \in rows : r.id # req'.id}
               /\ Cardinality(rows') = Cardinality(rows) - 1
               /\ req'.id \in deleted'
        /\ deleted' \cap Ids(rows') = {}
        /\ (req'.op = "list" /\ resp'.status = 200)
            => \A i \in 1..Len(resp'.list) : resp'.list[i].id \notin deleted' ]_vars

\* C2 witness: a second DELETE of a deleted id was answered NotFound while another record remains.
C2_Witness ==
    /\ req.op = "delete"
    /\ resp.status = 404
    /\ req.id \in deleted
    /\ rows # {}

\* The calendar date a stored treatment_date denotes, as days are ordered.
DateKey(s) == strptime(s).y * 10000 + strptime(s).m * 100 + strptime(s).d

\* The instant at which a created_at string was stamped: local time minus its offset.
InstantOf(c) ==
    LET hh == 10 * DigitVal(c[12]) + DigitVal(c[13])
        mm == 10 * DigitVal(c[15]) + DigitVal(c[16])
        off == 10 * DigitVal(c[21]) + DigitVal(c[22])
    IN  60 * hh + mm - 60 * off

\* C3: list() returns every present record exactly once, a record with a later
\* calendar treatment_date before one with an earlier date and, on equal dates,
\* the more recently created first, for every date the validator accepts and
\* every pair of creation instants.
C3_ListNewestFirst ==
    (req.op = "list" /\ resp.status = 200)
    => /\ Len(resp.list) = Cardinality(rows)
       /\ {resp.list[i] : i \in 1..Len(resp.list)} = rows
       /\ \A i, j \in 1..Len(resp.list) :
              i < j =>
                /\ DateKey(resp.list[i].treatment_date) >= DateKey(resp.list[j].treatment_date)
                /\ DateKey(resp.list[i].treatment_date) = DateKey(resp.list[j].treatment_date)
                     => InstantOf(resp.list[i].created_at) >= InstantOf(resp.list[j].created_at)

\* The body passes validation: the handler reaches the validator and it returns no error.
PassesValidation(data) ==
    /\ BodyTruthy(data)
    /\ ~validate_treatment_data(data).raised
    /\ validate_treatment_data(data).errors = <<>>

\* C4: for every body that passes validation (the persistence layer not failing),
\* create inserts exactly one new record and returns its id; the record's
\* patient_name is the supplied name without surrounding whitespace, its notes
\* the supplied notes without surrounding whitespace, or empty when notes is
\* absent, and its created_at is present; the record stays until it is deleted.
C4_CreateStoresTrimmedRecord ==
    [][ /\ (Handled("create") /\ PassesValidation(req'.body) /\ req'.fail = "none")
            => /\ resp'.status = 201
               /\ resp'.id \notin Ids(rows)
               /\ \E r \in rows' :
                    /\ rows' = rows \cup {r}
                    /\ r.id = resp'.id
                    /\ r.patient_name = strip(req'.body.patient_name.s)
                    /\ r.notes = (IF req'.body.notes.kind = "str"
                                  THEN strip(req'.body.notes.s) ELSE <<>>)
                    /\ r.created_at # <<>>
        /\ \A r \in rows : r \in rows' \/ r.id \in deleted' ]_vars

\* C5: every successful create returns an id strictly greater than every id an
\* earlier create returned; no two records share an id and the id of a deleted
\* record is never assigned again.
C5_IdsStrictlyIncrease ==
    [][ /\ (Handled("create") /\ resp'.status = 201)
            => /\ \A i \in issued : resp'.id > i
               /\ resp'.id \notin deleted
               /\ resp'.id \in Ids(rows')
        /\ \A a, b \in rows' : a.id = b.id => a = b ]_vars

\* C5 witness: a create returned id 2 after the record with id 1 was deleted.
C5_Witness ==
    /\ req.op = "create"
    /\ resp.status = 201
    /\ resp.id = 2
    /\ 1 \in deleted
    /\ Ids(rows) = {2}

\* C6: when two DELETE requests for the same id overlap, they never both report
\* success: one reports success and the other observes NotFound.
C6_OneDeleteSucceeds ==
    \A t, u \in Threads :
        (t # u /\ thr[t].pc = "done" /\ thr[u].pc = "done"
              /\ thr[t].id = thr[u].id /\ thr[t].status = 200)
        => thr[u].status # 200

\* The field rules as the claim words them; an empty or null value counts as missing.
NameViolated(data) ==
    data.patient_name.kind # "str" \/ strip(data.patient_name.s) = <<>>
TypeViolated(data) ==
    data.treatment_type.kind # "str" \/ lower(data.treatment_type.s) \notin valid_types
DateMissing(data) == ~Truthy(data.treatment_date)
DateInvalid(data) ==
    /\ ~DateMissing(data)
    /\ data.treatment_date.kind # "str" \/ ~strptime(data.treatment_date.s).ok

ExpectedErrors(data) ==
    (IF NameViolated(data) THEN <<ErrName>> ELSE <<>>)
    \o (IF TypeViolated(data) THEN <<ErrType>> ELSE <<>>)
    \o (IF DateMissing(data) THEN <<ErrDateRequired>> ELSE <<>>)
    \o (IF DateInvalid(data) THEN <<ErrDateFormat>> ELSE <<>>)

\* C7: for every payload the validator returns a list holding exactly one
\* message per violated field rule, in the order name, type, date; for the date
\* 'required' when it is missing and 'invalid format' when it is present but no
\* calendar-valid date, never both; the list is empty exactly when no rule is violated.
C7_ValidatorCollectsAll ==
    vOut.called => (~vOut.raised /\ vOut.errors = ExpectedErrors(vIn))

\* C8: records are never updated in place: a present record is present unchanged
\* in the next state or its id is gone, and a step changes the table only by
\* adding one record with a new id or by removing one record.
C8_NoUpdateInPlace ==
    [][ /\ \A r \in rows : r \in rows' \/ r.id \notin Ids(rows')
        /\ \/ rows' = rows
           \/ \E r \in rows' : r.id \notin Ids(rows) /\ rows' = rows \cup {r} /\ req'.op = "create"
           \/ \E r \in rows : rows' = rows \ {r} /\ req'.op = "delete" ]_vars

\* C8 witness: two records were created, one was deleted, the other is still stored.
C8_Witness ==
    /\ Cardinality(issued) = 2
    /\ Cardinality(rows) = 1
    /\ Cardinality(deleted) = 1

\* C9: every POST /treatments ends in 201 with an id, 400 'No data provided',
\* 400 with a validation error list, or 500; a body that violates a field rule
\* gets the 400 validation response, and 500 is returned only when the
\* persistence layer fails, in which case no record is added.
C9_CreateOutcomes ==
    [][ Handled("create")
        => /\ \/ resp'.status = 201 /\ resp'.id \in Ids(rows')
              \/ resp'.status = 400 /\ resp'.message = "No data provided" /\ resp'.errors = <<>>
              \/ IsValidationFailure(resp')
              \/ resp'.status = 500
           /\ (BodyTruthy(req'.body)
                 /\ (NameViolated(req'.body) \/ TypeViolated(req'.body)
                       \/ DateMissing(req'.body) \/ DateInvalid(req'.body)))
               => IsValidationFailure(resp')
           /\ resp'.status = 500 => (req'.fail # "none" /\ rows' = rows) ]_vars

\* C10: every handler releases the connection it acquired on every exit path:
\* whenever no request is in progress, no connection a handler opened is open.
C10_NoConnectionLeft ==
    open = 0

====
